---- MODULE Spec2Model ----
(***************************************************************************)
(* Room store and socket event handlers of mnsphone-server                 *)
(* (src/src/models.ts: the GameRoom model followed by                      *)
(* initializeSocketEvents).  Every socket.on(...) callback is one action;  *)
(* Node runs each callback to completion, so an action is one whole        *)
(* handler.  Opaque payload strings that no handler ever reads (nickname,  *)
(* profilePic, text, imageData, createdAt) are left out of the records.    *)
(***************************************************************************)
EXTENDS Integers, Sequences, FiniteSets, TLC

\* ---------------------------------------------------------------- bounds
MaxRooms == 2          \* rooms alive at once, room-lifecycle events (SpecRooms)
MaxPlayers == 3        \* player entries in the store, room-lifecycle events (SpecRooms)
MaxSubmissions == 2    \* length of one room's sentences / drawings array
MaxDraws == 2          \* Math.random code draws followed in one create-room

\* ------------------------------------------------------- program constants
DefaultMaxRounds == 3

\* ---------------------------------------------------------------- inputs
Sockets == {"s1", "s2", "s3"}           \* socket.id values
RoomIds == 1..(MaxRooms + 1)             \* uuidv4() values
CodeList == <<"AAAA", "MMMM", "ZZZZ", "QQQQ">>
Codes(n) == {CodeList[i] : i \in 1..n}  \* outcomes of the four random letters
DrawSeqs(n) == UNION {[1..k -> Codes(n)] : k \in 1..MaxDraws}

\* Two slices of the server's behaviour.  SpecRooms follows the events that
\* add and remove rooms and players, over several rooms at once; Spec follows
\* every event, on a store that holds one room of two player entries at a time.
RoomsLimits == [rooms |-> MaxRooms, players |-> MaxPlayers, codes |-> MaxRooms]
GameLimits == [rooms |-> 1, players |-> 2, codes |-> 1]
\* settings.maxRounds as clients send it; 0 stands for a falsy or absent field
SettingsInputs == {[maxRounds |-> 0], [maxRounds |-> 1]}
Indices == {0, 1}                        \* index sent with show-result

VARIABLES
  rooms,        \* the Map `rooms`, as the sequence of its values in insertion order
  connected,    \* io.sockets.sockets: ids of the live connections
  groups,       \* socket.io broadcast groups: room id -> set of socket ids
  listing       \* argument of the latest io.emit('active-rooms', ...), if any

vars == <<rooms, connected, groups, listing>>

\* ------------------------------------------------------------ sequences
RemoveAt(seq, i) == [j \in 1..(Len(seq) - 1) |-> IF j < i THEN seq[j] ELSE seq[j + 1]]

FirstIndex(seq, P(_)) ==
  IF \E i \in 1..Len(seq) : P(seq[i])
  THEN CHOOSE i \in 1..Len(seq) : P(seq[i]) /\ \A j \in 1..(i - 1) : ~P(seq[j])
  ELSE 0

CountIf(seq, P(_)) == Cardinality({i \in 1..Len(seq) : P(seq[i])})

\* ------------------------------------------------------------ messages
Msg(name, to, payload) == [name |-> name, to |-> to, payload |-> payload]
ErrorTo(s, message) == Msg("error", {s}, [message |-> message])
NoPayload == [empty |-> TRUE]

\* ------------------------------------------------------------ room store
NewRoom(roomId, roomCode, s) ==
  [id |-> roomId, code |-> roomCode,
   players |-> <<[id |-> s, isHost |-> TRUE, isReady |-> FALSE]>>,
   gameState |-> "lobby", currentRound |-> 0, maxRounds |-> DefaultMaxRounds,
   locked |-> FALSE, sentences |-> <<>>, drawings |-> <<>>,
   presentationMode |-> [active |-> FALSE, currentIndex |-> 0]]

\* index in rs of the first room with that code, 0 for null
findRoomByCode(rs, code) == FirstIndex(rs, LAMBDA r : r.code = code)

\* first room (in Map order) holding an entry with that id, and the first such entry
findPlayerRoom(rs, playerId) ==
  LET ri == FirstIndex(rs, LAMBDA r : \E i \in 1..Len(r.players) : r.players[i].id = playerId)
  IN IF ri = 0 THEN [room |-> 0, player |-> 0]
     ELSE [room |-> ri, player |-> FirstIndex(rs[ri].players, LAMBDA p : p.id = playerId)]

\* faulty variant: rooms of every phase are listed
getActiveRooms_AllPhases(rs) ==
  [i \in 1..Len(rs) |->
     [code |-> rs[i].code, playerCount |-> Len(rs[i].players), locked |-> rs[i].locked]]

getActiveRooms(rs) ==
  LET lobby == SelectSeq(rs, LAMBDA r : r.gameState = "lobby")
  IN [i \in 1..Len(lobby) |->
        [code |-> lobby[i].code, playerCount |-> Len(lobby[i].players), locked |-> lobby[i].locked]]

emitActiveRooms(rs, s) == Msg("active-rooms", {s}, [rooms |-> getActiveRooms(rs)])
emitActiveRoomsToAll(rs, conn) == Msg("active-rooms", conn, [rooms |-> getActiveRooms(rs)])

\* faulty variant: the first draw is returned without looking for a room with that code
generateRoomCode_NoRetry(rs, draws) == Head(draws)

\* the code returned after following the random draws; "" when every draw collided
RECURSIVE generateRoomCode(_, _)
generateRoomCode(rs, draws) ==
  IF findRoomByCode(rs, Head(draws)) # 0
  THEN IF Len(draws) > 1 THEN generateRoomCode(rs, Tail(draws)) ELSE ""
  ELSE Head(draws)

\* a fresh id: the least one no room of the store carries
uuidv4 == CHOOSE id \in RoomIds :
  /\ \A i \in 1..Len(rooms) : rooms[i].id # id
  /\ \A k \in 1..(id - 1) : \E i \in 1..Len(rooms) : rooms[i].id = k

\* result of a handler: the store and the groups it leaves, and the messages
\* it emitted, in order
Result(rs, gs, msgs) == [rooms |-> rs, groups |-> gs, out |-> msgs]
Silent == Result(rooms, groups, <<>>)
Reject(s, message) == Result(rooms, groups, <<ErrorTo(s, message)>>)

\* the listing of the last active-rooms message among msgs, else the one before
LastListing(msgs) ==
  LET sent == {k \in 1..Len(msgs) : msgs[k].name = "active-rooms"}
  IN IF sent = {} THEN listing
     ELSE [sent |-> TRUE, rooms |-> msgs[CHOOSE k \in sent : \A j \in sent : j <= k].payload.rooms]

\* a handler whose only active-rooms messages are io.emit broadcasts
Apply(res) ==
  /\ rooms' = res.rooms
  /\ groups' = res.groups
  /\ listing' = LastListing(res.out)

\* a handler that answers the asking socket alone (socket.emit)
Answer(res) ==
  /\ rooms' = res.rooms
  /\ groups' = res.groups
  /\ UNCHANGED listing

\* ------------------------------------------------------------ handlers
\* the found room with one field replaced, put back into the store
WithRoom(ri, room) == [rooms EXCEPT ![ri] = room]

CreateRoomHandler(s, draws, roomId) ==
  LET room == NewRoom(roomId, generateRoomCode(rooms, draws), s)
      rs == Append(rooms, room)
  IN Result(rs, [groups EXCEPT ![roomId] = @ \cup {s}],
            <<Msg("room-created", {s}, [room |-> room]), emitActiveRoomsToAll(rs, connected)>>)

\* faulty variant: the phase is looked at only after the player has been added
JoinRoomHandler_LateCheck(s, roomCode) ==
  LET ri == findRoomByCode(rooms, roomCode) IN
  IF ri = 0 THEN Reject(s, "Room not found")
  ELSE IF rooms[ri].locked THEN Reject(s, "Room is locked")
  ELSE
    LET room == [rooms[ri] EXCEPT !.players = Append(@, [id |-> s, isHost |-> FALSE, isReady |-> FALSE])]
        rs == [rooms EXCEPT ![ri] = room]
        gs == [groups EXCEPT ![room.id] = @ \cup {s}]
    IN IF rooms[ri].gameState # "lobby"
       THEN Result(rs, gs, <<ErrorTo(s, "Game has already started")>>)
       ELSE Result(rs, gs,
                   <<Msg("room-joined", {s}, [room |-> room]),
                     Msg("player-joined", gs[room.id] \ {s}, [playerId |-> s]),
                     emitActiveRoomsToAll(rs, connected)>>)

\* faulty variant: a locked room still takes new players
JoinRoomHandler_NoLockCheck(s, roomCode) ==
  LET ri == findRoomByCode(rooms, roomCode) IN
  IF ri = 0 THEN Reject(s, "Room not found")
  ELSE IF rooms[ri].gameState # "lobby" THEN Reject(s, "Game has already started")
  ELSE
    LET room == [rooms[ri] EXCEPT !.players = Append(@, [id |-> s, isHost |-> FALSE, isReady |-> FALSE])]
        rs == [rooms EXCEPT ![ri] = room]
        gs == [groups EXCEPT ![room.id] = @ \cup {s}]
    IN Result(rs, gs,
              <<Msg("room-joined", {s}, [room |-> room]),
                Msg("player-joined", gs[room.id] \ {s}, [playerId |-> s]),
                emitActiveRoomsToAll(rs, connected)>>)

JoinRoomHandler(s, roomCode) ==
  LET ri == findRoomByCode(rooms, roomCode) IN
  IF ri = 0 THEN Reject(s, "Room not found")
  ELSE IF rooms[ri].locked THEN Reject(s, "Room is locked")
  ELSE IF rooms[ri].gameState # "lobby" THEN Reject(s, "Game has already started")
  ELSE
    LET room == [rooms[ri] EXCEPT !.players = Append(@, [id |-> s, isHost |-> FALSE, isReady |-> FALSE])]
        rs == [rooms EXCEPT ![ri] = room]
        gs == [groups EXCEPT ![room.id] = @ \cup {s}]
    IN Result(rs, gs,
              <<Msg("room-joined", {s}, [room |-> room]),
                Msg("player-joined", gs[room.id] \ {s}, [playerId |-> s]),
                emitActiveRoomsToAll(rs, connected)>>)

\* faulty variant: an emptied room stays in the store
LeaveRoomHandler_KeepEmpty(s) ==
  LET f == findPlayerRoom(rooms, s) IN
  IF f.room = 0 THEN Silent
  ELSE
    LET room == rooms[f.room]
        updated == [room EXCEPT !.players = RemoveAt(@, f.player)]
        rs == WithRoom(f.room, updated)
        gs == [groups EXCEPT ![room.id] = @ \ {s}]
    IN Result(rs, gs, <<emitActiveRoomsToAll(rs, connected)>>)

\* faulty variant: the host role is not passed on when the host leaves
LeaveRoomHandler_NoNewHost(s) ==
  LET f == findPlayerRoom(rooms, s) IN
  IF f.room = 0 THEN Silent
  ELSE
    LET room == rooms[f.room]
        player == room.players[f.player]
        spliced == RemoveAt(room.players, f.player)
        gs == [groups EXCEPT ![room.id] = @ \ {s}]
    IN IF Len(spliced) = 0
       THEN LET rs == RemoveAt(rooms, f.room)
            IN Result(rs, gs, <<emitActiveRoomsToAll(rs, connected)>>)
       ELSE LET updated == [room EXCEPT !.players = spliced]
                rs == WithRoom(f.room, updated)
            IN Result(rs, gs,
                      <<Msg("player-left", gs[room.id], [playerId |-> s, updatedRoom |-> updated]),
                        emitActiveRoomsToAll(rs, connected)>>)

LeaveRoomHandler(s) ==
  LET f == findPlayerRoom(rooms, s) IN
  IF f.room = 0 THEN Silent
  ELSE
    LET room == rooms[f.room]
        player == room.players[f.player]
        spliced == RemoveAt(room.players, f.player)
        gs == [groups EXCEPT ![room.id] = @ \ {s}]
    IN IF Len(spliced) = 0
       THEN LET rs == RemoveAt(rooms, f.room)
            IN Result(rs, gs, <<emitActiveRoomsToAll(rs, connected)>>)
       ELSE LET players == IF player.isHost THEN [spliced EXCEPT ![1].isHost = TRUE] ELSE spliced
                updated == [room EXCEPT !.players = players]
                rs == WithRoom(f.room, updated)
            IN Result(rs, gs,
                      <<Msg("player-left", gs[room.id], [playerId |-> s, updatedRoom |-> updated]),
                        emitActiveRoomsToAll(rs, connected)>>)

\* faulty variant: the host role goes to the player who joined last
DisconnectHandler_LastBecomesHost(s) ==
  LET f == findPlayerRoom(rooms, s)
      gs == [id \in RoomIds |-> groups[id] \ {s}]
      conn == connected \ {s}
  IN
  IF f.room = 0 THEN Result(rooms, gs, <<>>)
  ELSE
    LET room == rooms[f.room]
        player == room.players[f.player]
        spliced == RemoveAt(room.players, f.player)
    IN IF Len(spliced) = 0
       THEN LET rs == RemoveAt(rooms, f.room)
            IN Result(rs, gs, <<emitActiveRoomsToAll(rs, conn)>>)
       ELSE LET players == IF player.isHost THEN [spliced EXCEPT ![Len(spliced)].isHost = TRUE] ELSE spliced
                updated == [room EXCEPT !.players = players]
                rs == WithRoom(f.room, updated)
            IN Result(rs, gs,
                      <<Msg("player-left", gs[room.id], [playerId |-> s, updatedRoom |-> updated]),
                        emitActiveRoomsToAll(rs, conn)>>)

\* socket.io has taken the socket out of every group and out of
\* io.sockets.sockets before the disconnect callback runs
DisconnectHandler(s) ==
  LET f == findPlayerRoom(rooms, s)
      gs == [id \in RoomIds |-> groups[id] \ {s}]
      conn == connected \ {s}
  IN
  IF f.room = 0 THEN Result(rooms, gs, <<>>)
  ELSE
    LET room == rooms[f.room]
        player == room.players[f.player]
        spliced == RemoveAt(room.players, f.player)
    IN IF Len(spliced) = 0
       THEN LET rs == RemoveAt(rooms, f.room)
            IN Result(rs, gs, <<emitActiveRoomsToAll(rs, conn)>>)
       ELSE LET players == IF player.isHost THEN [spliced EXCEPT ![1].isHost = TRUE] ELSE spliced
                updated == [room EXCEPT !.players = players]
                rs == WithRoom(f.room, updated)
            IN Result(rs, gs,
                      <<Msg("player-left", gs[room.id], [playerId |-> s, updatedRoom |-> updated]),
                        emitActiveRoomsToAll(rs, conn)>>)

ToggleReadyHandler(s) ==
  LET f == findPlayerRoom(rooms, s) IN
  IF f.room = 0 THEN Silent
  ELSE
    LET room == [rooms[f.room] EXCEPT !.players[f.player].isReady = ~@]
    IN Result(WithRoom(f.room, room), groups,
              <<Msg("room-updated", groups[room.id], [room |-> room])>>)

\* faulty variant: the caller has to be ready as well
allReady_CallerToo(room, player) ==
  \A i \in 1..Len(room.players) : room.players[i].isReady

\* room.players.every(p => p.isReady || p.id === player.id)
allReady(room, player) ==
  \A i \in 1..Len(room.players) : room.players[i].isReady \/ room.players[i].id = player.id

\* faulty variant: the ready flags are not looked at
StartGameHandler_NoReadyCheck(s) ==
  LET f == findPlayerRoom(rooms, s) IN
  IF f.room = 0 THEN Silent
  ELSE IF ~rooms[f.room].players[f.player].isHost THEN Reject(s, "Only the host can start the game")
  ELSE IF Len(rooms[f.room].players) < 2 THEN Reject(s, "Need at least 2 players to start")
  ELSE
    LET room == [rooms[f.room] EXCEPT !.gameState = "writing", !.currentRound = 1]
        rs == WithRoom(f.room, room)
    IN Result(rs, groups,
              <<Msg("game-started", groups[room.id], [room |-> room]),
                emitActiveRoomsToAll(rs, connected)>>)

StartGameHandler(s) ==
  LET f == findPlayerRoom(rooms, s) IN
  IF f.room = 0 THEN Silent
  ELSE IF ~rooms[f.room].players[f.player].isHost THEN Reject(s, "Only the host can start the game")
  ELSE IF ~allReady(rooms[f.room], rooms[f.room].players[f.player]) THEN Reject(s, "Not all players are ready")
  ELSE IF Len(rooms[f.room].players) < 2 THEN Reject(s, "Need at least 2 players to start")
  ELSE
    LET room == [rooms[f.room] EXCEPT !.gameState = "writing", !.currentRound = 1]
        rs == WithRoom(f.room, room)
    IN Result(rs, groups,
              <<Msg("game-started", groups[room.id], [room |-> room]),
                emitActiveRoomsToAll(rs, connected)>>)

\* faulty variant: the phase ends when at least as many sentences as players are in
SubmitSentenceHandler_AtLeast(s) ==
  LET f == findPlayerRoom(rooms, s) IN
  IF f.room = 0 THEN Silent
  ELSE IF rooms[f.room].gameState # "writing"
  THEN Reject(s, "Cannot submit sentence in current game state")
  ELSE
    LET r0 == rooms[f.room]
        pushed == [r0 EXCEPT !.sentences = Append(@, [playerId |-> s, round |-> r0.currentRound])]
        submittedCount == CountIf(pushed.sentences, LAMBDA e : e.round = pushed.currentRound)
        done == submittedCount >= Len(pushed.players)
        room == IF done THEN [pushed EXCEPT !.gameState = "drawing"] ELSE pushed
    IN Result(WithRoom(f.room, room), groups,
              (IF done THEN <<Msg("phase-changed", groups[room.id], [phase |-> "drawing"])>> ELSE <<>>)
                \o <<Msg("room-updated", groups[room.id], [room |-> room])>>)

SubmitSentenceHandler(s) ==
  LET f == findPlayerRoom(rooms, s) IN
  IF f.room = 0 THEN Silent
  ELSE IF rooms[f.room].gameState # "writing"
  THEN Reject(s, "Cannot submit sentence in current game state")
  ELSE
    LET r0 == rooms[f.room]
        pushed == [r0 EXCEPT !.sentences = Append(@, [playerId |-> s, round |-> r0.currentRound])]
        submittedCount == CountIf(pushed.sentences, LAMBDA e : e.round = pushed.currentRound)
        done == submittedCount = Len(pushed.players)
        room == IF done THEN [pushed EXCEPT !.gameState = "drawing"] ELSE pushed
    IN Result(WithRoom(f.room, room), groups,
              (IF done THEN <<Msg("phase-changed", groups[room.id], [phase |-> "drawing"])>> ELSE <<>>)
                \o <<Msg("room-updated", groups[room.id], [room |-> room])>>)

\* faulty variant: the last round is recognised one round late
SubmitDrawingHandler_LateResults(s) ==
  LET f == findPlayerRoom(rooms, s) IN
  IF f.room = 0 THEN Silent
  ELSE IF rooms[f.room].gameState # "drawing"
  THEN Reject(s, "Cannot submit drawing in current game state")
  ELSE
    LET r0 == rooms[f.room]
        pushed == [r0 EXCEPT !.drawings = Append(@, [playerId |-> s, round |-> r0.currentRound])]
        submittedCount == CountIf(pushed.drawings, LAMBDA e : e.round = pushed.currentRound)
        done == submittedCount = Len(pushed.players)
        room == IF ~done THEN pushed
                ELSE IF pushed.currentRound > pushed.maxRounds
                THEN [pushed EXCEPT !.gameState = "results"]
                ELSE [pushed EXCEPT !.currentRound = @ + 1, !.gameState = "writing"]
    IN Result(WithRoom(f.room, room), groups,
              (IF done THEN <<Msg("phase-changed", groups[room.id], [phase |-> room.gameState])>> ELSE <<>>)
                \o <<Msg("room-updated", groups[room.id], [room |-> room])>>)

SubmitDrawingHandler(s) ==
  LET f == findPlayerRoom(rooms, s) IN
  IF f.room = 0 THEN Silent
  ELSE IF rooms[f.room].gameState # "drawing"
  THEN Reject(s, "Cannot submit drawing in current game state")
  ELSE
    LET r0 == rooms[f.room]
        pushed == [r0 EXCEPT !.drawings = Append(@, [playerId |-> s, round |-> r0.currentRound])]
        submittedCount == CountIf(pushed.drawings, LAMBDA e : e.round = pushed.currentRound)
        done == submittedCount = Len(pushed.players)
        room == IF ~done THEN pushed
                ELSE IF pushed.currentRound >= pushed.maxRounds
                THEN [pushed EXCEPT !.gameState = "results"]
                ELSE [pushed EXCEPT !.currentRound = @ + 1, !.gameState = "writing"]
    IN Result(WithRoom(f.room, room), groups,
              (IF done THEN <<Msg("phase-changed", groups[room.id], [phase |-> room.gameState])>> ELSE <<>>)
                \o <<Msg("room-updated", groups[room.id], [room |-> room])>>)

UpdateRoomSettingsHandler(s, settings) ==
  LET f == findPlayerRoom(rooms, s) IN
  IF f.room = 0 THEN Silent
  ELSE IF ~rooms[f.room].players[f.player].isHost
  THEN Reject(s, "Only the host can update room settings")
  ELSE
    LET room == IF settings.maxRounds # 0
                THEN [rooms[f.room] EXCEPT !.maxRounds = settings.maxRounds]
                ELSE rooms[f.room]
    IN Result(WithRoom(f.room, room), groups,
              <<Msg("room-updated", groups[room.id], [room |-> room])>>)

\* faulty variant: any member may kick
KickPlayerHandler_NoHostCheck(s, playerId) ==
  LET f == findPlayerRoom(rooms, s) IN
  IF f.room = 0 THEN Silent
  ELSE
    LET r0 == rooms[f.room]
        playerIndex == FirstIndex(r0.players, LAMBDA p : p.id = playerId)
    IN IF playerIndex = 0 THEN Reject(s, "Player not found")
       ELSE IF playerId = s THEN Reject(s, "Cannot kick yourself")
       ELSE
         LET room == [r0 EXCEPT !.players = RemoveAt(@, playerIndex)]
             rs == WithRoom(f.room, room)
             gs == [groups EXCEPT ![room.id] = @ \ {playerId}]
         IN Result(rs, gs,
                   <<Msg("player-kicked", {playerId} \cap connected, NoPayload),
                     Msg("room-updated", gs[room.id], [room |-> room]),
                     emitActiveRoomsToAll(rs, connected)>>)

\* faulty variant: the host may name itself
KickPlayerHandler_SelfKick(s, playerId) ==
  LET f == findPlayerRoom(rooms, s) IN
  IF f.room = 0 THEN Silent
  ELSE IF ~rooms[f.room].players[f.player].isHost THEN Reject(s, "Only the host can kick players")
  ELSE
    LET r0 == rooms[f.room]
        playerIndex == FirstIndex(r0.players, LAMBDA p : p.id = playerId)
    IN IF playerIndex = 0 THEN Reject(s, "Player not found")
       ELSE
         LET room == [r0 EXCEPT !.players = RemoveAt(@, playerIndex)]
             rs == WithRoom(f.room, room)
             gs == [groups EXCEPT ![room.id] = @ \ {playerId}]
         IN Result(rs, gs,
                   <<Msg("player-kicked", {playerId} \cap connected, NoPayload),
                     Msg("room-updated", gs[room.id], [room |-> room]),
                     emitActiveRoomsToAll(rs, connected)>>)

KickPlayerHandler(s, playerId) ==
  LET f == findPlayerRoom(rooms, s) IN
  IF f.room = 0 THEN Silent
  ELSE IF ~rooms[f.room].players[f.player].isHost THEN Reject(s, "Only the host can kick players")
  ELSE
    LET r0 == rooms[f.room]
        playerIndex == FirstIndex(r0.players, LAMBDA p : p.id = playerId)
    IN IF playerIndex = 0 THEN Reject(s, "Player not found")
       ELSE IF playerId = s THEN Reject(s, "Cannot kick yourself")
       ELSE
         LET room == [r0 EXCEPT !.players = RemoveAt(@, playerIndex)]
             rs == WithRoom(f.room, room)
             gs == [groups EXCEPT ![room.id] = @ \ {playerId}]
         IN Result(rs, gs,
                   <<Msg("player-kicked", {playerId} \cap connected, NoPayload),
                     Msg("room-updated", gs[room.id], [room |-> room]),
                     emitActiveRoomsToAll(rs, connected)>>)

ToggleRoomLockHandler(s) ==
  LET f == findPlayerRoom(rooms, s) IN
  IF f.room = 0 THEN Silent
  ELSE IF ~rooms[f.room].players[f.player].isHost
  THEN Reject(s, "Only the host can lock/unlock the room")
  ELSE
    LET room == [rooms[f.room] EXCEPT !.locked = ~@]
        rs == WithRoom(f.room, room)
    IN Result(rs, groups,
              <<Msg("room-lock-changed", groups[room.id], [roomCode |-> room.code, locked |-> room.locked]),
                Msg("room-updated", groups[room.id], [room |-> room]),
                emitActiveRoomsToAll(rs, connected)>>)

StartPresentationHandler(s) ==
  LET f == findPlayerRoom(rooms, s) IN
  IF f.room = 0 THEN Silent
  ELSE IF ~rooms[f.room].players[f.player].isHost
  THEN Reject(s, "Only the host can start presentation mode")
  ELSE IF rooms[f.room].gameState # "results"
  THEN Reject(s, "Presentation mode only available in results phase")
  ELSE
    LET room == [rooms[f.room] EXCEPT !.presentationMode = [active |-> TRUE, currentIndex |-> 0]]
    IN Result(WithRoom(f.room, room), groups,
              <<Msg("presentation-started", groups[room.id], room.presentationMode)>>)

ShowResultHandler(s, index) ==
  LET f == findPlayerRoom(rooms, s) IN
  IF f.room = 0 THEN Silent
  ELSE IF ~rooms[f.room].players[f.player].isHost
  THEN Reject(s, "Only the host can control the presentation")
  ELSE IF ~rooms[f.room].presentationMode.active THEN Reject(s, "Presentation mode not active")
  ELSE
    LET room == [rooms[f.room] EXCEPT !.presentationMode.currentIndex = index]
    IN Result(WithRoom(f.room, room), groups,
              <<Msg("result-changed", groups[room.id], room.presentationMode)>>)

\* faulty variant: an inactive presentation is ended again
EndPresentationHandler_NoActiveCheck(s) ==
  LET f == findPlayerRoom(rooms, s) IN
  IF f.room = 0 THEN Silent
  ELSE IF ~rooms[f.room].players[f.player].isHost
  THEN Reject(s, "Only the host can end presentation mode")
  ELSE
    LET room == [rooms[f.room] EXCEPT !.presentationMode = [active |-> FALSE, currentIndex |-> 0]]
    IN Result(WithRoom(f.room, room), groups,
              <<Msg("presentation-ended", groups[room.id], NoPayload)>>)

EndPresentationHandler(s) ==
  LET f == findPlayerRoom(rooms, s) IN
  IF f.room = 0 THEN Silent
  ELSE IF ~rooms[f.room].players[f.player].isHost
  THEN Reject(s, "Only the host can end presentation mode")
  ELSE IF ~rooms[f.room].presentationMode.active THEN Reject(s, "Presentation mode not active")
  ELSE
    LET room == [rooms[f.room] EXCEPT !.presentationMode = [active |-> FALSE, currentIndex |-> 0]]
    IN Result(WithRoom(f.room, room), groups,
              <<Msg("presentation-ended", groups[room.id], NoPayload)>>)

\* faulty variant: a reset also opens the room again
ResetGameHandler_Unlocks(s) ==
  LET f == findPlayerRoom(rooms, s) IN
  IF f.room = 0 THEN Silent
  ELSE IF ~rooms[f.room].players[f.player].isHost THEN Reject(s, "Only the host can reset the game")
  ELSE
    LET r0 == rooms[f.room]
        room == [r0 EXCEPT !.gameState = "lobby", !.currentRound = 0,
                           !.sentences = <<>>, !.drawings = <<>>, !.locked = FALSE,
                           !.presentationMode = [active |-> FALSE, currentIndex |-> 0],
                           !.players = [i \in 1..Len(r0.players) |-> [r0.players[i] EXCEPT !.isReady = FALSE]]]
        rs == WithRoom(f.room, room)
    IN Result(rs, groups,
              <<Msg("game-reset", groups[room.id], NoPayload),
                Msg("room-updated", groups[room.id], [room |-> room]),
                emitActiveRoomsToAll(rs, connected)>>)

ResetGameHandler(s) ==
  LET f == findPlayerRoom(rooms, s) IN
  IF f.room = 0 THEN Silent
  ELSE IF ~rooms[f.room].players[f.player].isHost THEN Reject(s, "Only the host can reset the game")
  ELSE
    LET r0 == rooms[f.room]
        room == [r0 EXCEPT !.gameState = "lobby", !.currentRound = 0,
                           !.sentences = <<>>, !.drawings = <<>>,
                           !.presentationMode = [active |-> FALSE, currentIndex |-> 0],
                           !.players = [i \in 1..Len(r0.players) |-> [r0.players[i] EXCEPT !.isReady = FALSE]]]
        rs == WithRoom(f.room, room)
    IN Result(rs, groups,
              <<Msg("game-reset", groups[room.id], NoPayload),
                Msg("room-updated", groups[room.id], [room |-> room]),
                emitActiveRoomsToAll(rs, connected)>>)

\* io.on('connection'): the listing goes to the new socket
ConnectHandler(s) == Result(rooms, groups, <<emitActiveRooms(rooms, s)>>)

GetActiveRoomsHandler(s) == Result(rooms, groups, <<emitActiveRooms(rooms, s)>>)

\* ------------------------------------------------------------ actions
RECURSIVE TotalEntries(_)
TotalEntries(rs) == IF rs = <<>> THEN 0 ELSE Len(Head(rs).players) + TotalEntries(Tail(rs))

Init ==
  /\ rooms = <<>>
  /\ connected = {}
  /\ groups = [id \in RoomIds |-> {}]
  /\ listing = [sent |-> FALSE, rooms |-> <<>>]

\* io.on('connection'); a socket id is handed out again only once no room
\* still lists it, which is indistinguishable from a fresh id
Connect(s) ==
  /\ s \notin connected
  /\ findPlayerRoom(rooms, s).room = 0
  /\ connected' = connected \cup {s}
  /\ Answer(ConnectHandler(s))

CreateRoom(s, lim) ==
  /\ s \in connected
  /\ Len(rooms) < lim.rooms
  /\ TotalEntries(rooms) < lim.players
  /\ \E draws \in DrawSeqs(lim.codes) :
       /\ generateRoomCode(rooms, draws) # ""
       /\ Apply(CreateRoomHandler(s, draws, uuidv4))
  /\ UNCHANGED connected

JoinRoom(s, lim) ==
  /\ s \in connected
  /\ TotalEntries(rooms) < lim.players
  /\ \E roomCode \in Codes(lim.codes) :
       /\ Apply(JoinRoomHandler(s, roomCode))
  /\ UNCHANGED connected

LeaveRoom(s) ==
  /\ s \in connected
  /\ Apply(LeaveRoomHandler(s))
  /\ UNCHANGED connected

Disconnect(s) ==
  /\ s \in connected
  /\ connected' = connected \ {s}
  /\ Apply(DisconnectHandler(s))

\* the room an event of socket s works on
InRoom(s) == findPlayerRoom(rooms, s).room # 0
RoomOf(s) == rooms[findPlayerRoom(rooms, s).room]

ToggleReady(s) ==
  /\ s \in connected
  /\ Apply(ToggleReadyHandler(s))
  /\ UNCHANGED connected

StartGame(s) ==
  /\ s \in connected
  /\ Apply(StartGameHandler(s))
  /\ UNCHANGED connected

SubmitSentence(s) ==
  /\ s \in connected
  /\ InRoom(s) => Len(RoomOf(s).sentences) < MaxSubmissions
  /\ Apply(SubmitSentenceHandler(s))
  /\ UNCHANGED connected

SubmitDrawing(s) ==
  /\ s \in connected
  /\ InRoom(s) => Len(RoomOf(s).drawings) < MaxSubmissions
  /\ Apply(SubmitDrawingHandler(s))
  /\ UNCHANGED connected

UpdateRoomSettings(s) ==
  /\ s \in connected
  /\ \E settings \in SettingsInputs : Apply(UpdateRoomSettingsHandler(s, settings))
  /\ UNCHANGED connected

KickPlayer(s) ==
  /\ s \in connected
  /\ \E playerId \in Sockets : Apply(KickPlayerHandler(s, playerId))
  /\ UNCHANGED connected

ToggleRoomLock(s) ==
  /\ s \in connected
  /\ Apply(ToggleRoomLockHandler(s))
  /\ UNCHANGED connected

StartPresentation(s) ==
  /\ s \in connected
  /\ Apply(StartPresentationHandler(s))
  /\ UNCHANGED connected

ShowResult(s) ==
  /\ s \in connected
  /\ \E index \in Indices : Apply(ShowResultHandler(s, index))
  /\ UNCHANGED connected

EndPresentation(s) ==
  /\ s \in connected
  /\ Apply(EndPresentationHandler(s))
  /\ UNCHANGED connected

ResetGame(s) ==
  /\ s \in connected
  /\ Apply(ResetGameHandler(s))
  /\ UNCHANGED connected

GetActiveRooms(s) ==
  /\ s \in connected
  /\ Answer(GetActiveRoomsHandler(s))
  /\ UNCHANGED connected

Next ==
  \E s \in Sockets :
    \/ Connect(s)
    \/ CreateRoom(s, GameLimits)
    \/ JoinRoom(s, GameLimits)
    \/ LeaveRoom(s)
    \/ ToggleReady(s)
    \/ StartGame(s)
    \/ SubmitSentence(s)
    \/ SubmitDrawing(s)
    \/ UpdateRoomSettings(s)
    \/ KickPlayer(s)
    \/ ToggleRoomLock(s)
    \/ StartPresentation(s)
    \/ ShowResult(s)
    \/ EndPresentation(s)
    \/ ResetGame(s)
    \/ GetActiveRooms(s)
    \/ Disconnect(s)

Spec == Init /\ [][Next]_vars

\* the events that add or remove rooms and players, with larger rooms
NextRooms ==
  \E s \in Sockets :
    \/ Connect(s)
    \/ CreateRoom(s, RoomsLimits)
    \/ JoinRoom(s, RoomsLimits)
    \/ LeaveRoom(s)
    \/ KickPlayer(s)
    \/ Disconnect(s)

SpecRooms == Init /\ [][NextRooms]_vars

\* ------------------------------------------------------------ vocabulary of the claims
AllCodes == Codes(Len(CodeList))

HasRoom(rs, id) == \E i \in 1..Len(rs) : rs[i].id = id
RoomById(rs, id) == rs[CHOOSE i \in 1..Len(rs) : rs[i].id = id]

Hosts(room) == {i \in 1..Len(room.players) : room.players[i].isHost}
Occurrences(rs, s) ==
  UNION {{<<i, j>> : j \in {k \in 1..Len(rs[i].players) : rs[i].players[k].id = s}} :
           i \in 1..Len(rs)}

IsError(res) == \E k \in 1..Len(res.out) : res.out[k].name = "error"
ErrorOnlyTo(res, s) ==
  /\ Len(res.out) = 1
  /\ res.out[1].name = "error"
  /\ res.out[1].to = {s}
Emits(res, name) == \E k \in 1..Len(res.out) : res.out[k].name = name

\* C1: after every event each room of the store has at least one player (the
\* store starts empty), and a room disappears from the store only in an event
\* that takes away its last player entry.
C1_RoomsNeverEmpty ==
  [][/\ \A i \in 1..Len(rooms') : Len(rooms'[i].players) >= 1
     /\ \A id \in RoomIds :
          (HasRoom(rooms, id) /\ ~HasRoom(rooms', id)) => Len(RoomById(rooms, id).players) = 1]_vars

\* a second room outlived the first one, so a room was emptied and removed
\* while another room with players stayed
C1_Witness ==
  /\ Len(rooms) = 1
  /\ rooms[1].id = 2
  /\ Len(rooms[1].players) >= 2

\* C2: every room of the store with players has exactly one entry with isHost.
C2_ExactlyOneHost ==
  \A i \in 1..Len(rooms) :
    Len(rooms[i].players) > 0 => Cardinality(Hosts(rooms[i])) = 1

\* a room of three connections that outlived an emptied room has one host, and
\* still has one, the second player, once its host leaves
C2_Witness ==
  /\ Len(rooms) = 1
  /\ rooms[1].id = 2
  /\ Len(rooms[1].players) = 3
  /\ Cardinality({rooms[1].players[j].id : j \in 1..3}) = 3
  /\ Hosts(rooms[1]) = {1}
  /\ rooms[1].players[1].id \in connected
  /\ LET after == LeaveRoomHandler(rooms[1].players[1].id).rooms
     IN /\ Len(after) = 1
        /\ Hosts(after[1]) = {1}
        /\ after[1].players[1].id = rooms[1].players[2].id

\* C3: no two rooms of the store have the same code, and the code create-room
\* would give a new room differs from the code of every room in the store.
C3_UniqueCodes ==
  /\ \A i, j \in 1..Len(rooms) : i # j => rooms[i].code # rooms[j].code
  /\ \A draws \in DrawSeqs(RoomsLimits.codes) :
       generateRoomCode(rooms, draws) # "" =>
         \A i \in 1..Len(rooms) : rooms[i].code # generateRoomCode(rooms, draws)

\* create-room has added a second room while another room was in the store,
\* when a draw of the first room's code was possible
C3_Witness ==
  /\ Len(rooms) = 2
  /\ rooms[1].code # rooms[2].code
  /\ \E draws \in DrawSeqs(RoomsLimits.codes) :
       /\ Len(draws) = 2
       /\ draws[1] = rooms[1].code
       /\ generateRoomCode(<<rooms[1]>>, draws) = rooms[2].code

\* C4: in every event, a room that goes from drawing to writing has its
\* currentRound increased by exactly 1, and a room that enters results was in
\* drawing with currentRound >= maxRounds.
C4_PhaseTransitions ==
  [][\A id \in RoomIds :
       (HasRoom(rooms, id) /\ HasRoom(rooms', id)) =>
         LET before == RoomById(rooms, id)
             after == RoomById(rooms', id)
         IN /\ (before.gameState = "drawing" /\ after.gameState = "writing")
                  => after.currentRound = before.currentRound + 1
            /\ (before.gameState # "results" /\ after.gameState = "results")
                  => (before.gameState = "drawing" /\ before.currentRound >= before.maxRounds)]_vars

\* C5: a room in lobby has currentRound = 0 and a room in writing, drawing or
\* results has 1 <= currentRound <= maxRounds.
C5_RoundInRange ==
  \A i \in 1..Len(rooms) :
    IF rooms[i].gameState = "lobby"
    THEN rooms[i].currentRound = 0
    ELSE 1 <= rooms[i].currentRound /\ rooms[i].currentRound <= rooms[i].maxRounds

\* C6: a room's sentences hold at most one entry per (playerId, round), and so
\* do its drawings.
C6_OneSubmissionPerPlayerRound ==
  \A i \in 1..Len(rooms) :
    /\ \A a, b \in 1..Len(rooms[i].sentences) :
         rooms[i].sentences[a] = rooms[i].sentences[b] => a = b
    /\ \A a, b \in 1..Len(rooms[i].drawings) :
         rooms[i].drawings[a] = rooms[i].drawings[b] => a = b

\* C7: a connection id occurs in at most one player entry over all rooms.
C7_OneEntryPerConnection ==
  \A s \in Sockets : Cardinality(Occurrences(rooms, s)) <= 1

\* C8: an event that is rejected with an error leaves the rooms and the
\* broadcast groups as they were and emits nothing but one error to the caller.
RejectedCleanly(s, res) ==
  IsError(res) => (res.rooms = rooms /\ res.groups = groups /\ ErrorOnlyTo(res, s))

C8_RejectionChangesNothing ==
  \A s \in Sockets :
    /\ \A roomCode \in AllCodes : RejectedCleanly(s, JoinRoomHandler(s, roomCode))
    /\ RejectedCleanly(s, StartGameHandler(s))
    /\ RejectedCleanly(s, SubmitSentenceHandler(s))
    /\ RejectedCleanly(s, SubmitDrawingHandler(s))
    /\ \A settings \in SettingsInputs : RejectedCleanly(s, UpdateRoomSettingsHandler(s, settings))
    /\ \A playerId \in Sockets : RejectedCleanly(s, KickPlayerHandler(s, playerId))
    /\ RejectedCleanly(s, ToggleRoomLockHandler(s))
    /\ RejectedCleanly(s, StartPresentationHandler(s))
    /\ \A index \in Indices : RejectedCleanly(s, ShowResultHandler(s, index))
    /\ RejectedCleanly(s, EndPresentationHandler(s))
    /\ RejectedCleanly(s, ResetGameHandler(s))

RejectedWith(res, message) == IsError(res) /\ res.out[1].payload.message = message

\* a locked room in the writing phase: a join, a submit-drawing by a member,
\* a self-kick and an end-presentation by the host are all rejected here
C8_Witness ==
  \E s, t \in connected :
    /\ Len(rooms) = 1
    /\ rooms[1].gameState = "writing"
    /\ rooms[1].locked
    /\ Len(rooms[1].players) = 2
    /\ rooms[1].players[1].id = s
    /\ rooms[1].players[2].id = t
    /\ s # t
    /\ RejectedWith(JoinRoomHandler(t, rooms[1].code), "Room is locked")
    /\ RejectedWith(SubmitDrawingHandler(t), "Cannot submit drawing in current game state")
    /\ RejectedWith(KickPlayerHandler(s, s), "Cannot kick yourself")
    /\ RejectedWith(KickPlayerHandler(t, s), "Only the host can kick players")
    /\ RejectedWith(EndPresentationHandler(s), "Presentation mode not active")

\* C9: a host-only event by a member that is not the host is rejected and
\* changes nothing; a host-only event changes only the room whose host entry
\* carries the caller's id; and the caller whose entry has the host flag, also
\* when it got the flag by reassignment, is never turned away as a non-host.
HostOnlyMessages ==
  {"Only the host can start the game", "Only the host can update room settings",
   "Only the host can kick players", "Only the host can lock/unlock the room",
   "Only the host can start presentation mode", "Only the host can control the presentation",
   "Only the host can end presentation mode", "Only the host can reset the game"}

HostChecked(s, res) ==
  LET f == findPlayerRoom(rooms, s) IN
  /\ (f.room # 0 /\ ~rooms[f.room].players[f.player].isHost) =>
        (IsError(res) /\ res.rooms = rooms /\ res.groups = groups)
  /\ res.rooms # rooms =>
        /\ f.room # 0
        /\ Len(res.rooms) = Len(rooms)
        /\ \A i \in 1..Len(rooms) : i # f.room => res.rooms[i] = rooms[i]
        /\ \A j \in Hosts(rooms[f.room]) : rooms[f.room].players[j].id = s
        /\ Hosts(rooms[f.room]) # {}
  /\ (f.room # 0 /\ rooms[f.room].players[f.player].isHost) =>
        ~(IsError(res) /\ res.out[1].payload.message \in HostOnlyMessages)

C9_HostOnlyEvents ==
  \A s \in Sockets :
    /\ HostChecked(s, StartGameHandler(s))
    /\ \A settings \in SettingsInputs : HostChecked(s, UpdateRoomSettingsHandler(s, settings))
    /\ \A playerId \in Sockets : HostChecked(s, KickPlayerHandler(s, playerId))
    /\ HostChecked(s, ToggleRoomLockHandler(s))
    /\ HostChecked(s, StartPresentationHandler(s))
    /\ \A index \in Indices : HostChecked(s, ShowResultHandler(s, index))
    /\ HostChecked(s, EndPresentationHandler(s))
    /\ HostChecked(s, ResetGameHandler(s))

\* a started and locked room (its host has sent start-game and
\* toggle-room-lock): the other member is turned away by the host-only events,
\* the host is not, and the member gets the host flag when the host leaves
C9_Witness ==
  \E h, m \in connected :
    /\ h # m
    /\ Len(rooms) = 1
    /\ Len(rooms[1].players) = 2
    /\ rooms[1].players[1].id = h /\ rooms[1].players[1].isHost
    /\ rooms[1].players[2].id = m /\ ~rooms[1].players[2].isHost
    /\ rooms[1].gameState = "writing"
    /\ rooms[1].locked
    /\ RejectedWith(KickPlayerHandler(m, h), "Only the host can kick players")
    /\ RejectedWith(ResetGameHandler(m), "Only the host can reset the game")
    /\ RejectedWith(ToggleRoomLockHandler(m), "Only the host can lock/unlock the room")
    /\ ~IsError(ToggleRoomLockHandler(h))
    /\ ~IsError(KickPlayerHandler(h, m))
    /\ LET after == LeaveRoomHandler(h).rooms
       IN after[1].players[1].id = m /\ after[1].players[1].isHost

\* C10: start-game succeeds exactly when the caller's entry is the host, every
\* entry with another id is ready and the room has at least 2 entries; then the
\* room is in writing with currentRound 1, otherwise the store is unchanged.
C10_StartGame ==
  \A s \in Sockets :
    LET f == findPlayerRoom(rooms, s)
        res == StartGameHandler(s)
        allowed ==
          /\ f.room # 0
          /\ rooms[f.room].players[f.player].isHost
          /\ \A j \in 1..Len(rooms[f.room].players) :
               rooms[f.room].players[j].id # s => rooms[f.room].players[j].isReady
          /\ Len(rooms[f.room].players) >= 2
    IN /\ Emits(res, "game-started") <=> allowed
       /\ allowed =>
            /\ res.rooms[f.room].gameState = "writing"
            /\ res.rooms[f.room].currentRound = 1
            /\ res.rooms = [rooms EXCEPT ![f.room].gameState = "writing", ![f.room].currentRound = 1]
       /\ ~allowed => res.rooms = rooms

\* start-game has just put a room into round 1 although its host is not ready
C10_Witness ==
  \E i \in 1..Len(rooms) :
    /\ rooms[i].gameState = "writing"
    /\ rooms[i].currentRound = 1
    /\ rooms[i].sentences = <<>>
    /\ rooms[i].drawings = <<>>
    /\ Len(rooms[i].players) = 2
    /\ ~rooms[i].players[1].isReady
    /\ rooms[i].players[2].isReady

\* a lobby room of two entries with different ids, the host entry first
TwoPlayerLobby(i) ==
  /\ rooms[i].gameState = "lobby"
  /\ Len(rooms[i].players) = 2
  /\ rooms[i].players[1].isHost
  /\ ~rooms[i].players[2].isHost
  /\ rooms[i].players[1].id # rooms[i].players[2].id
  /\ findPlayerRoom(rooms, rooms[i].players[1].id).room = i

Started(res, i) ==
  /\ Emits(res, "game-started")
  /\ res.rooms[i].gameState = "writing"
  /\ res.rooms[i].currentRound = 1

NotStarted(res, i) ==
  /\ IsError(res)
  /\ res.rooms[i].gameState = "lobby"
  /\ res.rooms[i].currentRound = 0

\* C11 (as stated): in a 2-player lobby room whose non-host player is ready and
\* whose host is not, start-game by the host fails and the room stays in lobby
\* with currentRound = 0; it succeeds once the host is ready too.
C11_HostMustBeReady ==
  \A i \in 1..Len(rooms) :
    (TwoPlayerLobby(i) /\ rooms[i].players[2].isReady) =>
      LET res == StartGameHandler(rooms[i].players[1].id)
      IN IF rooms[i].players[1].isReady THEN Started(res, i) ELSE NotStarted(res, i)

\* C11 (amended): in a 2-player lobby room start-game by the host succeeds
\* (writing, currentRound 1) as soon as the non-host player is ready, whether
\* or not the host is ready; while the non-host player is not ready it fails
\* and the room stays in lobby with currentRound = 0.
C11_HostReadyNotNeeded ==
  \A i \in 1..Len(rooms) :
    TwoPlayerLobby(i) =>
      LET res == StartGameHandler(rooms[i].players[1].id)
      IN IF rooms[i].players[2].isReady
         THEN Started(res, i)
         ELSE NotStarted(res, i) /\ res.rooms = rooms

\* the host, not ready, is about to start the game with the other player
\* ready, and is turned away again after the other player's next toggle-ready
C11_Witness ==
  \E i \in 1..Len(rooms) :
    /\ TwoPlayerLobby(i)
    /\ ~rooms[i].players[1].isReady
    /\ rooms[i].players[2].isReady
    /\ rooms[i].players[1].id \in connected
    /\ Started(StartGameHandler(rooms[i].players[1].id), i)
    /\ rooms[i].players[2].id \in connected
    /\ findPlayerRoom(rooms, rooms[i].players[2].id).room = i

\* the rooms join-room(roomCode) may add a player to
Joinable(roomCode) ==
  {i \in 1..Len(rooms) :
     rooms[i].code = roomCode /\ ~rooms[i].locked /\ rooms[i].gameState = "lobby"}

JoinedAsLast(s, roomCode, res) ==
  /\ (res.rooms # rooms \/ res.groups # groups \/ Emits(res, "room-joined")) =>
        \E i \in Joinable(roomCode) :
          /\ res.rooms = [rooms EXCEPT ![i].players =
                                    Append(@, [id |-> s, isHost |-> FALSE, isReady |-> FALSE])]
          /\ \A j \in 1..Len(rooms[i].players) : res.rooms[i].players[j] = rooms[i].players[j]
          /\ res.groups = [groups EXCEPT ![rooms[i].id] = @ \cup {s}]
          /\ Emits(res, "room-joined")
  /\ Joinable(roomCode) # {} => Emits(res, "room-joined")

\* the codes of the rooms in the store and a code that no room has
SomeCodes == {rooms[i].code : i \in 1..Len(rooms)} \cup {CodeList[Len(CodeList)]}

\* create-room with a single draw, which collides or is taken
FirstDraws == {<<code>> : code \in SomeCodes}

\* P holds of the result of every event that can come next in this state:
\* any event of a live connection, and the connection of another socket
EveryEvent(P(_, _)) ==
  /\ \A s \in Sockets \ connected : P(s, ConnectHandler(s))
  /\ \A s \in connected :
    /\ \A draws \in FirstDraws :
         generateRoomCode(rooms, draws) # "" => P(s, CreateRoomHandler(s, draws, uuidv4))
    /\ \A roomCode \in SomeCodes : P(s, JoinRoomHandler(s, roomCode))
    /\ P(s, LeaveRoomHandler(s))
    /\ P(s, ToggleReadyHandler(s))
    /\ P(s, StartGameHandler(s))
    /\ P(s, SubmitSentenceHandler(s))
    /\ P(s, SubmitDrawingHandler(s))
    /\ \A settings \in SettingsInputs : P(s, UpdateRoomSettingsHandler(s, settings))
    /\ \A playerId \in Sockets : P(s, KickPlayerHandler(s, playerId))
    /\ P(s, ToggleRoomLockHandler(s))
    /\ P(s, StartPresentationHandler(s))
    /\ \A index \in Indices : P(s, ShowResultHandler(s, index))
    /\ P(s, EndPresentationHandler(s))
    /\ P(s, ResetGameHandler(s))
    /\ P(s, GetActiveRoomsHandler(s))
    /\ P(s, DisconnectHandler(s))

GrowsOnlyInOpenLobby(res) ==
  \A i \in 1..Len(rooms) : \A j \in 1..Len(res.rooms) :
    (res.rooms[j].id = rooms[i].id /\ Len(res.rooms[j].players) > Len(rooms[i].players)) =>
      (~rooms[i].locked /\ rooms[i].gameState = "lobby")

\* C12: join-room(code) adds the caller to a room only if a room with that
\* code is in the store, unlocked and in lobby; then the caller is appended as
\* the last player with isHost = FALSE and isReady = FALSE and the earlier
\* players stay as they were; and no event makes the player list of a room
\* grow while the room is locked or out of the lobby.
C12_JoinRoom ==
  /\ \A s \in connected : \A roomCode \in SomeCodes :
       JoinedAsLast(s, roomCode, JoinRoomHandler(s, roomCode))
  /\ EveryEvent(LAMBDA s, res : GrowsOnlyInOpenLobby(res))

\* a second player has joined and got the last place; the host then locked
\* the room, so the join of a third connection is turned away, and would be
\* appended behind the two if the room were open
C12_Witness ==
  \E t \in connected :
    /\ Len(rooms) = 1
    /\ Len(rooms[1].players) = 2
    /\ rooms[1].players[1].isHost
    /\ rooms[1].players[2] = [id |-> rooms[1].players[2].id, isHost |-> FALSE, isReady |-> FALSE]
    /\ rooms[1].players[1].id # rooms[1].players[2].id
    /\ t \notin {rooms[1].players[1].id, rooms[1].players[2].id}
    /\ rooms[1].gameState = "lobby"
    /\ rooms[1].locked
    /\ RejectedWith(JoinRoomHandler(t, rooms[1].code), "Room is locked")

PlayerIds(room) == [j \in 1..Len(room.players) |-> room.players[j].id]

\* what leave-room and disconnect of s do to a room of two or more entries
HandsOver(s, res) ==
  LET f == findPlayerRoom(rooms, s) IN
  (f.room # 0 /\ Len(rooms[f.room].players) >= 2) =>
    LET before == rooms[f.room]
        after == res.rooms[f.room]
        rest == RemoveAt(before.players, f.player)
    IN /\ Len(res.rooms) = Len(rooms)
       /\ after.id = before.id
       /\ PlayerIds(after) = RemoveAt(PlayerIds(before), f.player)
       /\ IF before.players[f.player].isHost
          THEN /\ Hosts(after) = {1}
               /\ after.players[1].id = rest[1].id
               /\ \A j \in 2..Len(rest) : after.players[j] = rest[j]
          ELSE /\ after.players = rest
               /\ {after.players[j].id : j \in Hosts(after)} =
                    {before.players[j].id : j \in Hosts(before)}
       /\ \E k \in 1..Len(res.out) :
            res.out[k] = Msg("player-left", res.groups[before.id], [playerId |-> s, updatedRoom |-> after])

\* C13: when the host of a room with at least 2 players leaves or
\* disconnects, the first of the remaining players becomes the host, the
\* remaining players keep their order, and player-left with the updated room
\* goes to the room's broadcast group; when another player leaves or
\* disconnects the host stays who it was.
C13_HostHandover ==
  \A s \in connected :
    /\ HandsOver(s, LeaveRoomHandler(s))
    /\ HandsOver(s, DisconnectHandler(s))

\* a room of three connections, all in its broadcast group: a disconnect of
\* the host makes the second player host ahead of the third and tells both,
\* a leave-room of the second player keeps the host
C13_Witness ==
  \E h, m, n \in connected :
    /\ Cardinality({h, m, n}) = 3
    /\ Len(rooms) = 1
    /\ PlayerIds(rooms[1]) = <<h, m, n>>
    /\ Hosts(rooms[1]) = {1}
    /\ groups[rooms[1].id] = {h, m, n}
    /\ LET res == DisconnectHandler(h)
       IN /\ PlayerIds(res.rooms[1]) = <<m, n>>
          /\ Hosts(res.rooms[1]) = {1}
          /\ res.out[1].name = "player-left"
          /\ res.out[1].to = {m, n}
    /\ LET res == LeaveRoomHandler(m)
       IN /\ PlayerIds(res.rooms[1]) = <<h, n>>
          /\ Hosts(res.rooms[1]) = {1}

\* message m as the connections other than s get it
ToOthers(m, s) == [m EXCEPT !.to = @ \ {s}]

\* C14: in every reachable state and for every connection s, disconnect of s
\* gives the same room store as leave-room from s and emits the same
\* notifications, in the same order and with the same payloads, to the
\* connections other than s (player-left to the rest of the room's broadcast
\* group, the listing to every connection); when s is in no room both leave
\* the store alone and emit nothing.
C14_DisconnectAsLeave ==
  \A s \in connected :
    LET left == LeaveRoomHandler(s)
        gone == DisconnectHandler(s)
    IN /\ gone.rooms = left.rooms
       /\ Len(gone.out) = Len(left.out)
       /\ \A k \in 1..Len(left.out) : ToOthers(gone.out[k], s) = ToOthers(left.out[k], s)
       /\ findPlayerRoom(rooms, s).room = 0 =>
            (left.rooms = rooms /\ left.out = <<>> /\ gone.out = <<>>)

\* a room of two connections next to a room of a third: for the host of the
\* first room both events hand the room to the other player and tell that
\* player and the third connection; for a connection in no room both do nothing
C14_Witness ==
  \E h, m, n \in connected :
    /\ Cardinality({h, m, n}) = 3
    /\ Len(rooms) = 2
    /\ PlayerIds(rooms[1]) = <<h, m>>
    /\ PlayerIds(rooms[2]) = <<n>>
    /\ groups[rooms[1].id] = {h, m}
    /\ LET left == LeaveRoomHandler(h)
           gone == DisconnectHandler(h)
       IN /\ gone.rooms = left.rooms
          /\ Hosts(gone.rooms[1]) = {1}
          /\ PlayerIds(gone.rooms[1]) = <<m>>
          /\ gone.out[1].name = "player-left" /\ gone.out[1].to = {m}
          /\ gone.out[2].name = "active-rooms" /\ gone.out[2].to = {m, n}
          /\ left.out[2].to = {h, m, n}
    /\ LET after == LeaveRoomHandler(n).rooms
       IN Len(after) = 1 /\ findPlayerRoom(after, n).room = 0

\* entries of a submission array tagged with the room's current round
InRound(room, entries) == {k \in 1..Len(entries) : entries[k].round = room.currentRound}

PhaseChanges(res, phase) ==
  {k \in 1..Len(res.out) : res.out[k].name = "phase-changed" /\ res.out[k].payload.phase = phase}

\* submit-sentence of a room member s
SentenceSubmitted(s, res) ==
  LET f == findPlayerRoom(rooms, s) IN
  f.room # 0 =>
    LET before == rooms[f.room]
        after == res.rooms[f.room]
        full == Cardinality(InRound(after, after.sentences)) = Len(after.players)
    IN IF before.gameState # "writing"
       THEN RejectedWith(res, "Cannot submit sentence in current game state") /\ res.rooms = rooms
       ELSE /\ after.sentences = Append(before.sentences, [playerId |-> s, round |-> before.currentRound])
            /\ after.gameState = (IF full THEN "drawing" ELSE "writing")
            /\ res.rooms = [rooms EXCEPT ![f.room].sentences = after.sentences,
                                         ![f.room].gameState = after.gameState]
            /\ Cardinality(PhaseChanges(res, "drawing")) = (IF full THEN 1 ELSE 0)
            /\ res.out[Len(res.out)] = Msg("room-updated", res.groups[after.id], [room |-> after])
            /\ ~IsError(res)

\* an event tells of the drawing phase once if it takes a room from writing
\* to drawing, with as many sentences of the round as players, and else not
DrawingAnnounced(res) ==
  LET moved == {i \in 1..Len(rooms) : \E j \in 1..Len(res.rooms) :
                  /\ res.rooms[j].id = rooms[i].id
                  /\ rooms[i].gameState = "writing"
                  /\ res.rooms[j].gameState = "drawing"
                  /\ Cardinality(InRound(res.rooms[j], res.rooms[j].sentences)) = Len(res.rooms[j].players)}
      entered == {i \in 1..Len(rooms) : \E j \in 1..Len(res.rooms) :
                  /\ res.rooms[j].id = rooms[i].id
                  /\ rooms[i].gameState # "drawing"
                  /\ res.rooms[j].gameState = "drawing"}
  IN /\ entered = moved
     /\ Cardinality(moved) <= 1
     /\ Cardinality(PhaseChanges(res, "drawing")) = Cardinality(moved)

\* C15: submit-sentence is accepted only in writing and appends one sentence
\* tagged with currentRound; it moves the room to drawing exactly when, with
\* the new sentence, the sentences of the round are as many as the players,
\* and a room enters drawing in no other way; phase-changed(drawing) is
\* emitted once by the event that ends the writing phase and by no other;
\* every accepted submission ends with room-updated carrying the whole room.
C15_SubmitSentence ==
  [](/\ \A s \in connected : SentenceSubmitted(s, SubmitSentenceHandler(s))
     /\ EveryEvent(LAMBDA s, res : DrawingAnnounced(res)))

\* round 1 of a two-player room has just been completed with one sentence
\* of each player, and a further sentence is turned away
C15_Witness ==
  \E a, b \in connected :
    /\ a # b
    /\ Len(rooms) = 1
    /\ {rooms[1].players[j].id : j \in 1..Len(rooms[1].players)} = {a, b}
    /\ Len(rooms[1].players) = 2
    /\ rooms[1].gameState = "drawing"
    /\ rooms[1].currentRound = 1
    /\ rooms[1].sentences = <<[playerId |-> a, round |-> 1], [playerId |-> b, round |-> 1]>>
    /\ rooms[1].drawings = <<>>
    /\ RejectedWith(SubmitSentenceHandler(a), "Cannot submit sentence in current game state")

\* submit-drawing of a room member s
DrawingSubmitted(s, res) ==
  LET f == findPlayerRoom(rooms, s) IN
  f.room # 0 =>
    LET before == rooms[f.room]
        after == res.rooms[f.room]
        drawn == Append(before.drawings, [playerId |-> s, round |-> before.currentRound])
        full == Cardinality({k \in 1..Len(drawn) : drawn[k].round = before.currentRound})
                  = Len(before.players)
    IN IF before.gameState # "drawing"
       THEN RejectedWith(res, "Cannot submit drawing in current game state") /\ res.rooms = rooms
       ELSE /\ ~IsError(res)
            /\ after.drawings = drawn
            /\ ~full => (after.gameState = "drawing" /\ after.currentRound = before.currentRound)
            /\ (full /\ before.currentRound >= before.maxRounds) =>
                  (after.gameState = "results" /\ after.currentRound = before.currentRound)
            /\ (full /\ before.currentRound < before.maxRounds) =>
                  (after.gameState = "writing" /\ after.currentRound = before.currentRound + 1)
            /\ res.rooms = [rooms EXCEPT ![f.room].drawings = drawn,
                                         ![f.room].gameState = after.gameState,
                                         ![f.room].currentRound = after.currentRound]
            /\ after.currentRound > after.maxRounds => after.currentRound = before.currentRound

\* C16: submit-drawing is accepted only in drawing and appends one drawing
\* tagged with currentRound; when the drawings of the round are then as many
\* as the players the room goes to results with currentRound unchanged if
\* currentRound >= maxRounds and else to writing with currentRound + 1;
\* submit-drawing never takes currentRound above maxRounds.
C16_SubmitDrawing ==
  \A s \in Sockets : DrawingSubmitted(s, SubmitDrawingHandler(s))

\* with maxRounds = 1 the drawings of both players have ended round 1 in
\* results, and a further drawing is turned away
C16_Witness ==
  \E a, b \in connected :
    /\ a # b
    /\ Len(rooms) = 1
    /\ Len(rooms[1].players) = 2
    /\ {rooms[1].players[j].id : j \in 1..2} = {a, b}
    /\ rooms[1].maxRounds = 1
    /\ rooms[1].gameState = "results"
    /\ rooms[1].currentRound = 1
    /\ rooms[1].drawings = <<[playerId |-> a, round |-> 1], [playerId |-> b, round |-> 1]>>
    /\ RejectedWith(SubmitDrawingHandler(b), "Cannot submit drawing in current game state")

\* C17: reset-game by the host, whatever the phase, leaves the room in lobby
\* with currentRound 0, no sentences, no drawings, presentation inactive at
\* index 0 and nobody ready, and leaves the room's id, code, players with
\* their order and host flags, locked flag and maxRounds, every other room
\* and the broadcast groups as they were.
C17_ResetGame ==
  \A s \in Sockets :
    LET f == findPlayerRoom(rooms, s)
        res == ResetGameHandler(s)
    IN (f.room # 0 /\ rooms[f.room].players[f.player].isHost) =>
         LET before == rooms[f.room]
             after == res.rooms[f.room]
         IN /\ ~IsError(res)
            /\ after.gameState = "lobby"
            /\ after.currentRound = 0
            /\ after.sentences = <<>>
            /\ after.drawings = <<>>
            /\ after.presentationMode = [active |-> FALSE, currentIndex |-> 0]
            /\ \A j \in 1..Len(after.players) : ~after.players[j].isReady
            /\ after.id = before.id
            /\ after.code = before.code
            /\ PlayerIds(after) = PlayerIds(before)
            /\ Hosts(after) = Hosts(before)
            /\ after.locked = before.locked
            /\ after.maxRounds = before.maxRounds
            /\ Len(res.rooms) = Len(rooms)
            /\ \A i \in 1..Len(rooms) : i # f.room => res.rooms[i] = rooms[i]
            /\ res.groups = groups

\* a locked room with maxRounds 1 in results, its presentation at index 1 and
\* drawings of both players in: the host's reset-game brings back a lobby
\* that is still locked, still has maxRounds 1 and the same two players
C17_Witness ==
  \E h, m \in connected :
    /\ h # m
    /\ Len(rooms) = 1
    /\ PlayerIds(rooms[1]) = <<h, m>>
    /\ rooms[1].gameState = "results"
    /\ rooms[1].presentationMode = [active |-> TRUE, currentIndex |-> 1]
    /\ rooms[1].locked
    /\ rooms[1].maxRounds = 1
    /\ Len(rooms[1].drawings) = 2
    /\ rooms[1].players[2].isReady
    /\ LET after == ResetGameHandler(h).rooms[1]
       IN /\ after.gameState = "lobby"
          /\ after.locked
          /\ after.maxRounds = 1
          /\ PlayerIds(after) = <<h, m>>
          /\ ~after.players[2].isReady
          /\ after.drawings = <<>>

\* kick-player(target) sent by s
Kicked(s, target, res) ==
  LET f == findPlayerRoom(rooms, s) IN
  /\ Len(res.rooms) = Len(rooms)
  /\ \A i \in 1..Len(res.rooms) : Len(res.rooms[i].players) >= 1
  /\ (/\ f.room # 0
      /\ rooms[f.room].players[f.player].isHost
      /\ target # s
      /\ \E j \in 1..Len(rooms[f.room].players) : rooms[f.room].players[j].id = target) =>
        LET before == rooms[f.room]
            after == res.rooms[f.room]
        IN /\ ~IsError(res)
           /\ \E j \in 1..Len(before.players) :
                /\ before.players[j].id = target
                /\ ~before.players[j].isHost
                /\ after.players = RemoveAt(before.players, j)
           /\ Hosts(after) = {1}
           /\ after.players[1] = before.players[1]
           /\ res.rooms = [rooms EXCEPT ![f.room].players = after.players]
           /\ res.groups = [groups EXCEPT ![before.id] = @ \ {target}]
           /\ target \notin res.groups[before.id]
           /\ \E k \in 1..Len(res.out) :
                /\ res.out[k].name = "player-kicked"
                /\ res.out[k].to \subseteq {target}
                /\ target \in connected => res.out[k].to = {target}

\* C18: kick-player(target) by the host, for a target in the host's room other
\* than the host, takes one entry, an entry of the target, out of the room's
\* players and leaves the other entries, their order, the host and everything
\* else in the store as they were, takes the target's connection out of the
\* room's broadcast group and sends player-kicked to the target alone; no
\* kick-player, accepted or not, empties or deletes a room.
C18_KickPlayer ==
  \A s \in connected : \A target \in Sockets : Kicked(s, target, KickPlayerHandler(s, target))

\* a room of three connections: the host's kick of the second one leaves the
\* host and the third in place and in the group and tells the second alone;
\* the host's kick of itself is turned away
C18_Witness ==
  \E h, m, n \in connected :
    /\ Cardinality({h, m, n}) = 3
    /\ Len(rooms) = 1
    /\ PlayerIds(rooms[1]) = <<h, m, n>>
    /\ Hosts(rooms[1]) = {1}
    /\ groups[rooms[1].id] = {h, m, n}
    /\ LET res == KickPlayerHandler(h, m)
       IN /\ PlayerIds(res.rooms[1]) = <<h, n>>
          /\ res.groups[rooms[1].id] = {h, n}
          /\ res.out[1] = Msg("player-kicked", {m}, NoPayload)
    /\ RejectedWith(KickPlayerHandler(h, h), "Cannot kick yourself")

\* end-presentation sent by a room member s
PresentationEnded(s, res) ==
  LET f == findPlayerRoom(rooms, s) IN
  f.room # 0 =>
    /\ ~rooms[f.room].presentationMode.active =>
          (IsError(res) /\ ErrorOnlyTo(res, s) /\ res.rooms = rooms /\ res.groups = groups)
    /\ (rooms[f.room].presentationMode.active /\ rooms[f.room].players[f.player].isHost) =>
          /\ Emits(res, "presentation-ended")
          /\ res.rooms = [rooms EXCEPT ![f.room].presentationMode =
                                    [active |-> FALSE, currentIndex |-> 0]]

\* C19: end-presentation while the presentation of the caller's room is
\* inactive gives the caller an error and changes nothing; end-presentation
\* by the host while it is active sets presentation to active = FALSE,
\* currentIndex = 0; and in the state a successful end-presentation leaves
\* behind, the same event from the same caller is an error that changes
\* nothing.
C19_EndPresentation ==
  /\ [](\A s \in connected : PresentationEnded(s, EndPresentationHandler(s)))
  /\ [][\A i \in 1..Len(rooms) :
          (/\ rooms[i].presentationMode.active
           /\ rooms[i].players[1].id \in connected
           /\ rooms' = EndPresentationHandler(rooms[i].players[1].id).rooms
           /\ rooms' # rooms) =>
            (/\ findPlayerRoom(rooms, rooms[i].players[1].id).room # 0
             /\ RejectedWith(EndPresentationHandler(rooms[i].players[1].id),
                             "Presentation mode not active")
             /\ EndPresentationHandler(rooms[i].players[1].id).rooms = rooms)']_vars

\* the host is showing result 1 of a finished game: end-presentation puts the
\* presentation back to inactive at index 0, and the other player's
\* end-presentation is turned away
C19_Witness ==
  \E h, m \in connected :
    /\ h # m
    /\ Len(rooms) = 1
    /\ PlayerIds(rooms[1]) = <<h, m>>
    /\ rooms[1].gameState = "results"
    /\ rooms[1].presentationMode = [active |-> TRUE, currentIndex |-> 1]
    /\ LET res == EndPresentationHandler(h)
       IN /\ res.rooms[1].presentationMode = [active |-> FALSE, currentIndex |-> 0]
          /\ res.out = <<Msg("presentation-ended", groups[rooms[1].id], NoPayload)>>
    /\ IsError(EndPresentationHandler(m))

\* {code, playerCount, locked} of the rooms in lobby, in store order
RECURSIVE LobbyRooms(_)
LobbyRooms(rs) ==
  IF rs = <<>> THEN <<>>
  ELSE (IF Head(rs).gameState = "lobby"
        THEN <<[code |-> Head(rs).code, playerCount |-> Len(Head(rs).players),
                locked |-> Head(rs).locked]>>
        ELSE <<>>) \o LobbyRooms(Tail(rs))

\* an event that went through ends with the listing of the new store, sent
\* to the connections in conn
ListingSent(res, conn) ==
  (res.out # <<>> /\ ~IsError(res)) =>
    res.out[Len(res.out)] = Msg("active-rooms", conn, [rooms |-> LobbyRooms(res.rooms)])

ListingKept(res) == LobbyRooms(res.rooms) = LobbyRooms(rooms)

\* C20: in every reachable state the listing of the latest active-rooms
\* broadcast is {code, playerCount, locked} of exactly the rooms in lobby (no
\* room is in lobby before the first broadcast); every create-room, join-room,
\* leave-room, disconnect, kick-player, toggle-room-lock, reset-game and
\* start-game that goes through ends with a broadcast of the new listing to
\* all connections, and no other event changes the listing of the store.
C20_ListingUpToDate ==
  [](/\ listing.rooms = LobbyRooms(rooms)
     /\ \A s \in Sockets \ connected : ListingKept(ConnectHandler(s))
     /\ \A s \in connected :
          /\ \A draws \in FirstDraws :
               generateRoomCode(rooms, draws) # "" =>
                 ListingSent(CreateRoomHandler(s, draws, uuidv4), connected)
          /\ \A roomCode \in SomeCodes : ListingSent(JoinRoomHandler(s, roomCode), connected)
          /\ ListingSent(LeaveRoomHandler(s), connected)
          /\ ListingSent(DisconnectHandler(s), connected \ {s})
          /\ \A playerId \in Sockets : ListingSent(KickPlayerHandler(s, playerId), connected)
          /\ ListingSent(ToggleRoomLockHandler(s), connected)
          /\ ListingSent(ResetGameHandler(s), connected)
          /\ ListingSent(StartGameHandler(s), connected)
          /\ ListingKept(GetActiveRoomsHandler(s))
          /\ ListingKept(ToggleReadyHandler(s))
          /\ ListingKept(SubmitSentenceHandler(s))
          /\ ListingKept(SubmitDrawingHandler(s))
          /\ \A settings \in SettingsInputs : ListingKept(UpdateRoomSettingsHandler(s, settings))
          /\ ListingKept(StartPresentationHandler(s))
          /\ \A index \in Indices : ListingKept(ShowResultHandler(s, index))
          /\ ListingKept(EndPresentationHandler(s)))

\* a locked room of two went out of the lobby with start-game: the latest
\* broadcast lists no room, and the host's reset-game would list the room
\* again, locked and with two players
C20_Witness ==
  \E h \in connected :
    /\ Len(rooms) = 1
    /\ Len(rooms[1].players) = 2
    /\ rooms[1].players[1].id = h
    /\ rooms[1].locked
    /\ rooms[1].gameState = "writing"
    /\ listing = [sent |-> TRUE, rooms |-> <<>>]
    /\ LET res == ResetGameHandler(h)
       IN res.out[Len(res.out)].payload.rooms =
            <<[code |-> rooms[1].code, playerCount |-> 2, locked |-> TRUE]>>

\* C21: a connection whose disconnect has been processed is a player of no
\* room of the store, and once no connection is left the store holds no room.
C21_GoneLeavesNoEntry ==
  /\ \A s \in Sockets \ connected : Occurrences(rooms, s) = {}
  /\ connected = {} => rooms = <<>>

\* C22: in every reachable state a room whose presentation is active is in
\* the results phase.
C22_PresentationOnlyInResults ==
  \A i \in 1..Len(rooms) :
    rooms[i].presentationMode.active => rooms[i].gameState = "results"

\* C23: no room is in writing with at least as many sentences of the current
\* round as players, nor in drawing with at least as many drawings of the
\* current round as players.
C23_CompleteRoundAdvances ==
  \A i \in 1..Len(rooms) :
    /\ rooms[i].gameState = "writing" =>
          Cardinality(InRound(rooms[i], rooms[i].sentences)) < Len(rooms[i].players)
    /\ rooms[i].gameState = "drawing" =>
          Cardinality(InRound(rooms[i], rooms[i].drawings)) < Len(rooms[i].players)

====
